---- MODULE Spec2Model ----
(***************************************************************************)
(* Booking and payment core of the airport API.                            *)
(*                                                                         *)
(* The persistent store is the only shared state.  Every HTTP request is   *)
(* a process that reads and writes the store in the statement order of     *)
(* its handler; statements of different requests interleave freely.        *)
(* Rows written inside transaction.atomic() stay private to the request    *)
(* until the block exits; every other write is committed on its own.       *)
(* Seat letters are one-character strings and are represented by their     *)
(* code points, so that chr(n) is the code point n and string comparison   *)
(* is integer comparison.                                                  *)
(***************************************************************************)
EXTENDS Integers, Sequences, FiniteSets, TLC

VARIABLES
    aircraft,     \* Aircraft rows: id -> [rows, seats_in_row]
    flights,      \* Flight rows: id -> [aircraft, distance of its route, crew]
    orders,       \* committed Order rows: [id, user, status]
    tickets,      \* committed Ticket rows: [flight, row, seat, order]
    payments,     \* committed Payment rows: [session_id, order, status, amount]
    nextOrderId,  \* primary-key sequence of Order
    nreq,         \* number of order requests submitted so far
    pc,           \* position of each order request in its handler
    req,          \* request body: the sequence of ticket dicts
    idx,          \* index of the ticket being validated / inserted
    errs,         \* validation errors collected for the request
    extra,        \* keys of the request body other than "tickets"
    oid,          \* id of the Order row written by the request (0: none)
    txOrders,     \* Order rows written in the open transaction
    txTickets,    \* Ticket rows written in the open transaction
    result,       \* outcome of the request
    nextSession,  \* next session id the checkout provider hands out
    kpc,          \* position of the checkout call (create_stripe_session)
    korder,       \* id of the order being checked out
    ksession,     \* session returned by the provider: [id, url, amount_total]
    kresult,      \* outcome of the checkout call
    cpc,          \* position of the payment_success request
    csession,     \* its session_id query parameter
    cpayment,     \* session_id of the Payment instance it loaded
    cresult,      \* outcome of the payment_success request
    nconfirm      \* number of payment_success requests so far

refVars == <<aircraft, flights>>
reqVars == <<nreq, pc, req, extra, idx, errs, oid, result>>
checkoutVars == <<nextSession, kpc, korder, ksession, kresult>>
confirmVars == <<cpc, csession, cpayment, cresult, nconfirm>>
vars == <<aircraft, flights, orders, tickets, payments, nextOrderId, nreq,
          pc, req, extra, idx, errs, oid, txOrders, txTickets, result,
          nextSession, kpc, korder, ksession, kresult,
          cpc, csession, cpayment, cresult, nconfirm>>

----------------------------------------------------------------------------
(* Bounds and input domains *)

\* total number of order requests submitted in one behaviour
MaxRequests == 2
\* total number of checkout sessions the provider hands out
MaxSessions == 2
\* total number of payment_success requests
MaxConfirms == 2
\* longest ticket list of one request
MaxTickets == 2

\* concurrent order requests; the user of a request is its session's user
Procs == {"u1", "u2"}

\* chr(seats_in_row + 64) in Ticket.validate_seat_row
SeatBase == 64
ChrA == SeatBase + 1
ChrB == SeatBase + 2
ChrC == SeatBase + 3

AircraftIds == {1, 2}
FlightIds == {1, 2}
CrewIds == {1, 2}

\* ticket dicts inside the seat map of their flight's aircraft
SeatA1 == [flight |-> 1, row |-> 1, seat |-> ChrA]
SeatB1 == [flight |-> 1, row |-> 1, seat |-> ChrB]
OtherFlightSeat == [flight |-> 2, row |-> 1, seat |-> ChrA]
CoreTickets == {SeatA1, SeatB1, OtherFlightSeat}

\* ticket dicts outside it: row 0, a row past the last row, a seat letter
\* past the last seat, a seat character before "A"
BadTickets ==
    { [flight |-> 1, row |-> 0, seat |-> ChrA],
      [flight |-> 1, row |-> 2, seat |-> ChrA],
      [flight |-> 1, row |-> 1, seat |-> ChrC],
      [flight |-> 1, row |-> 1, seat |-> SeatBase] }

TicketInputs == CoreTickets \cup BadTickets

\* request bodies: every list of up to MaxTickets in-range tickets, and
\* every out-of-range ticket alone, after an in-range ticket of its flight
\* and before a ticket of another flight
Requests ==
    UNION { [1..n -> CoreTickets] : n \in 0..MaxTickets }
    \cup { <<b>> : b \in BadTickets }
    \cup { <<SeatA1, b>> : b \in BadTickets }
    \cup { <<b, OtherFlightSeat>> : b \in BadTickets }

\* a request body with no key but "tickets" ("": the key is absent)
NoExtra == [status |-> "", user |-> ""]

\* what a request body may say beside its tickets: nothing, or the Order's
\* status and another user as its owner
BodyExtras == { NoExtra, [status |-> "paid", user |-> "u2"] }

----------------------------------------------------------------------------
(* Pure functions of the source *)

\* str.upper() on a one-character string
Upper(c) == IF c >= 97 /\ c <= 122 THEN c - 32 ELSE c

\* UppercaseField.get_prep_value
get_prep_value(value) == Upper(value)

\* Aircraft.capacity
capacity(a) == a.rows * a.seats_in_row

\* the row check starting at 0
validate_seat_row_from_zero(seat, seats_in_row, row, num_rows) ==
    LET max_seat_chr == seats_in_row + SeatBase
    IN  (ChrA <= seat /\ seat <= max_seat_chr) /\ (0 <= row /\ row <= num_rows)

\* Ticket.validate_seat_row: TRUE when it returns, FALSE when it raises
validate_seat_row(seat, seats_in_row, row, num_rows) ==
    LET max_seat_chr == seats_in_row + SeatBase
    IN  (ChrA <= seat /\ seat <= max_seat_chr) /\ (1 <= row /\ row <= num_rows)

\* the index with the order column added to it
unique_together_with_order(t) == <<t.seat, t.row, t.flight, t.order>>

\* Ticket.Meta.unique_together: the columns of the unique index
unique_together(t) == <<t.seat, t.row, t.flight>>

\* the validator the model serializer derives from unique_together:
\* TRUE when no visible row has the (seat, row, flight) of the ticket dict
UniqueTogetherValidator(attrs, visible) ==
    ~ \E t \in visible :
        unique_together(t) = <<get_prep_value(attrs.seat), attrs.row, attrs.flight>>

\* TicketSerializer.validate, run after the serializer's validators:
\* the set of error codes raised for one ticket dict
TicketSerializer_validate(attrs, visible) ==
    IF ~ UniqueTogetherValidator(attrs, visible) THEN {"unique"}
    ELSE IF ~ validate_seat_row(attrs.seat,
                                aircraft[flights[attrs.flight].aircraft].seats_in_row,
                                attrs.row,
                                aircraft[flights[attrs.flight].aircraft].rows)
         THEN {"seat_row"}
         ELSE {}

\* the flights collected in a list, so that only a body of three or more
\* flights is refused
OrderSerializer_validate_off_by_one(ts) ==
    LET flightIds == { ts[i].flight : i \in 1..Len(ts) }
    IN  ~ (Cardinality(flightIds) > 2)

\* OrderSerializer.validate: TRUE when it returns, FALSE when it raises
OrderSerializer_validate(ts) ==
    LET flightIds == { ts[i].flight : i \in 1..Len(ts) }
    IN  ~ (Cardinality(flightIds) > 1)

\* the tickets field with the default allow_empty=True
allow_empty_default(ts) == TRUE

\* allow_empty=False on the tickets field: TRUE when the list is accepted
allow_empty(ts) == Len(ts) > 0

\* the crew query parameter of the flight endpoints: absent, or the ids
\* _params_to_int reads from it
NoCrewParam == [given |-> FALSE, ids |-> {}]
CrewParams ==
    {NoCrewParam} \cup { [given |-> TRUE, ids |-> c] : c \in (SUBSET CrewIds) \ {{}} }

\* FlightViewSet.get_queryset: a flight is in the result when no crew
\* parameter is given or one of its crew members is among the ids
InQueryset(f, crew) ==
    ~ crew.given \/ flights[f].crew \cap crew.ids # {}

\* FlightViewSet.queryset filtered by get_queryset: the seats_left
\* annotation of a flight.  The annotation joins the flight with its
\* committed tickets and counts the joined rows of the flight's group;
\* filter(crew__in=...) joins the crew relation into the same query, so the
\* group holds one row per (ticket, matching crew member)
seats_left(f, crew) ==
    LET ticketRows == { t \in tickets : t.flight = f }
        joined == IF crew.given
                  THEN ticketRows \X (flights[f].crew \cap crew.ids)
                  ELSE ticketRows
    IN  aircraft[flights[f].aircraft].rows
            * aircraft[flights[f].aircraft].seats_in_row
        - Cardinality(joined)

----------------------------------------------------------------------------
(* The store *)

\* no session: the provider has not answered
NoSession == [id |-> 0, url |-> <<>>, amount_total |-> 0]

Init ==
    /\ aircraft = (1 :> [rows |-> 1, seats_in_row |-> 2]
                   @@ 2 :> [rows |-> 1, seats_in_row |-> 1])
    /\ flights = (1 :> [aircraft |-> 1, distance |-> 3, crew |-> {1, 2}]
                  @@ 2 :> [aircraft |-> 2, distance |-> 5, crew |-> {1}])
    /\ orders = {}
    /\ tickets = {}
    /\ payments = {}
    /\ nextOrderId = 1
    /\ nreq = 0
    /\ pc = [p \in Procs |-> "idle"]
    /\ req = [p \in Procs |-> <<>>]
    /\ extra = [p \in Procs |-> NoExtra]
    /\ idx = [p \in Procs |-> 0]
    /\ errs = [p \in Procs |-> {}]
    /\ oid = [p \in Procs |-> 0]
    /\ txOrders = [p \in Procs |-> {}]
    /\ txTickets = [p \in Procs |-> {}]
    /\ result = [p \in Procs |-> "none"]
    /\ nextSession = 1
    /\ kpc = "idle"
    /\ korder = 0
    /\ ksession = NoSession
    /\ kresult = "none"
    /\ cpc = "idle"
    /\ csession = 0
    /\ cpayment = 0
    /\ cresult = "none"
    /\ nconfirm = 0

\* Order.objects.create before transaction.atomic() is entered: the row is
\* committed on its own
InsertOrderAutocommit(p, row) ==
    /\ orders' = orders \cup {row}
    /\ txOrders' = txOrders

\* Order.objects.create inside transaction.atomic(): the row is written in
\* the request's open transaction
InsertOrder(p, row) ==
    /\ txOrders' = [txOrders EXCEPT ![p] = @ \cup {row}]
    /\ orders' = orders

\* Ticket.objects.create outside transaction.atomic(): the row is committed
\* on its own
InsertTicketAutocommit(p, row) ==
    /\ tickets' = tickets \cup {row}
    /\ txTickets' = txTickets

\* Ticket.objects.create inside transaction.atomic()
InsertTicket(p, row) ==
    /\ txTickets' = [txTickets EXCEPT ![p] = @ \cup {row}]
    /\ tickets' = tickets

\* the exception is caught inside the block, which then exits normally: the
\* rows written so far are committed
RollbackCaughtInside(p) ==
    /\ orders' = orders \cup txOrders[p]
    /\ tickets' = tickets \cup txTickets[p]
    /\ txOrders' = [txOrders EXCEPT ![p] = {}]
    /\ txTickets' = [txTickets EXCEPT ![p] = {}]

\* leaving transaction.atomic() by an exception: the open transaction is
\* rolled back
Rollback(p) ==
    /\ txOrders' = [txOrders EXCEPT ![p] = {}]
    /\ txTickets' = [txTickets EXCEPT ![p] = {}]
    /\ orders' = orders
    /\ tickets' = tickets

\* leaving transaction.atomic() normally: the open transaction commits
CommitTransaction(p) ==
    /\ orders' = orders \cup txOrders[p]
    /\ tickets' = tickets \cup txTickets[p]
    /\ txOrders' = [txOrders EXCEPT ![p] = {}]
    /\ txTickets' = [txTickets EXCEPT ![p] = {}]

\* the committed rows alone, as if a request did not see its own writes
VisibleTicketsCommitted(p) == tickets

\* rows a request can read: committed rows and its own uncommitted rows
VisibleTickets(p) == tickets \cup txTickets[p]

\* the Ticket row request p writes for its idx-th ticket dict
TicketRow(p) ==
    [flight |-> req[p][idx[p]].flight,
     row    |-> req[p][idx[p]].row,
     seat   |-> get_prep_value(req[p][idx[p]].seat),
     order  |-> oid[p]]

\* request p is about to insert a key that request q holds uncommitted:
\* the unique index makes p wait for q's transaction to end
WaitsFor(p, q) ==
    /\ p # q
    /\ pc[p] = "insert"
    /\ idx[p] <= Len(req[p])
    /\ \E t \in txTickets[q] : unique_together(t) = unique_together(TicketRow(p))

----------------------------------------------------------------------------
(* POST /orders/ : OrderViewSet.create with OrderSerializer *)

\* the request arrives
Submit(p, body, more) ==
    /\ pc[p] = "idle"
    /\ nreq < MaxRequests
    /\ nreq' = nreq + 1
    /\ req' = [req EXCEPT ![p] = body]
    /\ extra' = [extra EXCEPT ![p] = more]
    /\ idx' = [idx EXCEPT ![p] = 1]
    /\ pc' = [pc EXCEPT ![p] = "validate"]
    /\ UNCHANGED <<orders, tickets, nextOrderId, errs, oid, txOrders,
                   txTickets, result, payments, refVars,
                   checkoutVars, confirmVars>>

\* the tickets field validates one ticket dict; errors are collected
ValidateTicket(p) ==
    /\ pc[p] = "validate"
    /\ idx[p] <= Len(req[p])
    /\ errs' = [errs EXCEPT ![p] =
                   @ \cup TicketSerializer_validate(req[p][idx[p]],
                                                    VisibleTickets(p))]
    /\ idx' = [idx EXCEPT ![p] = @ + 1]
    /\ UNCHANGED <<orders, tickets, nextOrderId, nreq, pc, req, extra, oid,
                   txOrders, txTickets, result, payments, refVars,
                   checkoutVars, confirmVars>>

\* end of is_valid(): empty list, collected ticket errors, then
\* OrderSerializer.validate
ValidateOrder(p) ==
    /\ pc[p] = "validate"
    /\ idx[p] > Len(req[p])
    /\ LET e == IF ~ allow_empty(req[p]) THEN {"empty"}
                ELSE IF errs[p] # {} THEN errs[p]
                ELSE IF ~ OrderSerializer_validate(req[p]) THEN {"mixed_flights"}
                ELSE {}
       IN  /\ errs' = [errs EXCEPT ![p] = e]
           /\ IF e # {}
              THEN /\ pc' = [pc EXCEPT ![p] = "done"]
                   /\ result' = [result EXCEPT ![p] = "ValidationError"]
              ELSE /\ pc' = [pc EXCEPT ![p] = "create"]
                   /\ result' = result
    /\ UNCHANGED <<orders, tickets, nextOrderId, nreq, req, extra, idx, oid,
                   txOrders, txTickets, payments, refVars,
                   checkoutVars, confirmVars>>

\* the Order row built from every key of the request body
OrderRowFromBody(p) ==
    [id     |-> nextOrderId,
     user   |-> IF extra[p].user = "" THEN p ELSE extra[p].user,
     status |-> IF extra[p].status = "" THEN "not paid" ELSE extra[p].status]

\* Order.objects.create(**validated_data): the serializer's fields are id,
\* tickets and created_at, so validated_data holds nothing of the body but
\* the tickets, which create() pops; user is the keyword perform_create
\* passes to save(); status takes the model's default
OrderRow(p) == [id |-> nextOrderId, user |-> p, status |-> "not paid"]

\* OrderSerializer.create: enter transaction.atomic(), Order.objects.create
CreateOrderRow(p) ==
    /\ pc[p] = "create"
    /\ InsertOrder(p, OrderRow(p))
    /\ oid' = [oid EXCEPT ![p] = nextOrderId]
    /\ nextOrderId' = nextOrderId + 1
    /\ idx' = [idx EXCEPT ![p] = 1]
    /\ pc' = [pc EXCEPT ![p] = "insert"]
    /\ UNCHANGED <<tickets, txTickets, nreq, req, extra, errs, result,
                   payments, refVars, checkoutVars, confirmVars>>

\* OrderSerializer.create: one Ticket.objects.create of the loop
CreateTicketRow(p) ==
    /\ pc[p] = "insert"
    /\ idx[p] <= Len(req[p])
    /\ ~ \E q \in Procs : WaitsFor(p, q)
    /\ IF \E t \in VisibleTickets(p) : unique_together(t) = unique_together(TicketRow(p))
       THEN \* unique_together violated: IntegrityError leaves the block
            /\ Rollback(p)
            /\ pc' = [pc EXCEPT ![p] = "done"]
            /\ result' = [result EXCEPT ![p] = "IntegrityError"]
            /\ idx' = idx
       ELSE /\ InsertTicket(p, TicketRow(p))
            /\ txOrders' = txOrders
            /\ orders' = orders
            /\ idx' = [idx EXCEPT ![p] = @ + 1]
            /\ pc' = pc
            /\ result' = result
    /\ UNCHANGED <<nextOrderId, nreq, req, extra, errs, oid, payments,
                   refVars, checkoutVars, confirmVars>>

\* two requests wait for each other's uncommitted key: the store aborts one
DeadlockAbort(p) ==
    /\ \E q \in Procs : WaitsFor(p, q) /\ WaitsFor(q, p)
    /\ Rollback(p)
    /\ pc' = [pc EXCEPT ![p] = "done"]
    /\ result' = [result EXCEPT ![p] = "OperationalError"]
    /\ UNCHANGED <<nextOrderId, nreq, req, extra, idx, errs, oid, payments,
                   refVars, checkoutVars, confirmVars>>

\* OrderSerializer.create: return order, leaving transaction.atomic()
CommitOrder(p) ==
    /\ pc[p] = "insert"
    /\ idx[p] > Len(req[p])
    /\ CommitTransaction(p)
    /\ pc' = [pc EXCEPT ![p] = "done"]
    /\ result' = [result EXCEPT ![p] = "created"]
    /\ UNCHANGED <<nextOrderId, nreq, req, extra, idx, errs, oid, payments,
                   refVars, checkoutVars, confirmVars>>

\* the response is sent; the worker takes the next request
Respond(p) ==
    /\ pc[p] = "done"
    /\ pc' = [pc EXCEPT ![p] = "idle"]
    /\ req' = [req EXCEPT ![p] = <<>>]
    /\ extra' = [extra EXCEPT ![p] = NoExtra]
    /\ idx' = [idx EXCEPT ![p] = 0]
    /\ errs' = [errs EXCEPT ![p] = {}]
    /\ oid' = [oid EXCEPT ![p] = 0]
    /\ result' = [result EXCEPT ![p] = "none"]
    /\ UNCHANGED <<orders, tickets, nextOrderId, nreq, txOrders, txTickets,
                   payments, refVars,
                   checkoutVars, confirmVars>>

----------------------------------------------------------------------------
(* payments.sessions : create_stripe_session and create_payment *)

\* price of one ticket per unit of distance, in create_stripe_session
UnitRate == 10
\* session.amount_total / 100 in create_payment
AmountDivisor == 100

\* n stored as it is, without the division by 100
DecimalWhole(n) == [units |-> n, hundredths |-> 0]

\* n / 100 as a decimal with two decimal places
Decimal2(n) == [units |-> n \div AmountDivisor, hundredths |-> n % AmountDivisor]

\* order.tickets.count()
TicketCount(o) == Cardinality({ t \in tickets : t.order = o })

\* session ids a caller of payment_success may send: every id the provider
\* can hand out and one it never hands out
SessionInputs == 1..(MaxSessions + 1)

\* create_stripe_session with the Payment row written before the provider is
\* called, under a provisional session id
StripeSessionCreatePaymentFirst(o) ==
    /\ kpc = "idle"
    /\ nextSession <= MaxSessions
    /\ o \in { r.id : r \in orders }
    /\ \E first \in { t \in tickets : t.order = o } :
         LET amount == flights[first.flight].distance * TicketCount(o) * UnitRate
         IN  /\ payments' = payments \cup
                    { [session_id  |-> nextSession,
                       session_url |-> <<"checkout", nextSession>>,
                       order       |-> o,
                       status      |-> "PENDING",
                       amount      |-> Decimal2(amount)] }
             /\ \/ /\ ksession' = [id           |-> nextSession,
                                   url          |-> <<"checkout", nextSession>>,
                                   amount_total |-> amount]
                   /\ nextSession' = nextSession + 1
                   /\ kpc' = "session"
                   /\ kresult' = kresult
                \/ /\ ksession' = NoSession
                   /\ nextSession' = nextSession
                   /\ kpc' = "done"
                   /\ kresult' = "StripeError"
    /\ korder' = o
    /\ UNCHANGED <<orders, tickets, nextOrderId, txOrders,
                   txTickets, refVars, reqVars, confirmVars>>

\* create_stripe_session up to the provider's answer: the amount is
\* order.route_name.distance * order.tickets.count() * 10, where route_name
\* reads the flight of the order's first ticket; the provider either returns
\* a session with a fresh id or raises
StripeSessionCreate(o) ==
    /\ kpc = "idle"
    /\ nextSession <= MaxSessions
    /\ o \in { r.id : r \in orders }
    /\ \E first \in { t \in tickets : t.order = o } :
         LET amount == flights[first.flight].distance * TicketCount(o) * UnitRate
         IN  \/ /\ ksession' = [id           |-> nextSession,
                              url          |-> <<"checkout", nextSession>>,
                              amount_total |-> amount]
                /\ nextSession' = nextSession + 1
                /\ kpc' = "session"
                /\ kresult' = kresult
             \/ /\ ksession' = NoSession
                /\ nextSession' = nextSession
                /\ kpc' = "done"
                /\ kresult' = "StripeError"
    /\ korder' = o
    /\ UNCHANGED <<orders, tickets, payments, nextOrderId, txOrders,
                   txTickets, refVars, reqVars, confirmVars>>

\* create_payment: Payment.objects.create(status="PENDING", ...)
create_payment ==
    /\ kpc = "session"
    /\ payments' = payments \cup
           { [session_id  |-> ksession.id,
              session_url |-> ksession.url,
              order       |-> korder,
              status      |-> "PENDING",
              amount      |-> Decimal2(ksession.amount_total)] }
    /\ kpc' = "done"
    /\ kresult' = "session"
    /\ UNCHANGED <<orders, tickets, nextOrderId, txOrders, txTickets,
                   refVars, reqVars, nextSession, korder, ksession,
                   confirmVars>>

\* create_stripe_session has returned or raised
CheckoutReturn ==
    /\ kpc = "done"
    /\ kpc' = "idle"
    /\ korder' = 0
    /\ ksession' = NoSession
    /\ kresult' = "none"
    /\ UNCHANGED <<orders, tickets, payments, nextOrderId, txOrders,
                   txTickets, refVars, reqVars, nextSession, confirmVars>>

----------------------------------------------------------------------------
(* GET /payments/success?session_id=... : PaymentViewSet.payment_success *)

\* the lookup made on the order column
PaymentLookupByOrder(session) == { pm \in payments : pm.order = session }

\* Payment.objects.get(session_id=session): the rows the lookup matches
PaymentLookup(session) == { pm \in payments : pm.session_id = session }

\* partial update of the serializer: the status of the loaded Payment row
\* is written and committed on its own
PaymentSave(sid, status) ==
    payments' = { IF pm.session_id = sid THEN [pm EXCEPT !.status = status]
                  ELSE pm : pm \in payments }

\* the status written with Order.objects.update(...), which has no filter
OrderSaveAll(o, status) ==
    orders' = { [r EXCEPT !.status = status] : r \in orders }

\* order.status = "paid"; order.save(), committed on its own
OrderSave(o, status) ==
    orders' = { IF r.id = o THEN [r EXCEPT !.status = status] ELSE r :
                r \in orders }

\* the request arrives and the view looks the payment up
ConfirmLookup(session) ==
    /\ cpc = "idle"
    /\ nconfirm < MaxConfirms
    /\ nconfirm' = nconfirm + 1
    /\ csession' = session
    /\ IF PaymentLookup(session) = {}
       THEN /\ cpc' = "done"
            /\ cresult' = "DoesNotExist"
            /\ cpayment' = 0
       ELSE IF Cardinality(PaymentLookup(session)) > 1
       THEN /\ cpc' = "done"
            /\ cresult' = "MultipleObjectsReturned"
            /\ cpayment' = 0
       ELSE /\ cpc' = "loaded"
            /\ cresult' = cresult
            /\ cpayment' = session
    /\ UNCHANGED <<orders, tickets, payments, nextOrderId, txOrders,
                   txTickets, refVars, reqVars, checkoutVars>>

\* serializer.is_valid(); serializer.save()
ConfirmSavePayment ==
    /\ cpc = "loaded"
    /\ PaymentSave(cpayment, "paid")
    /\ cpc' = "saved"
    /\ UNCHANGED <<orders, tickets, nextOrderId, txOrders, txTickets,
                   refVars, reqVars, checkoutVars, csession, cpayment,
                   cresult, nconfirm>>

\* order = payment.order; order.status = "paid"; order.save()
ConfirmSaveOrder ==
    /\ cpc = "saved"
    /\ \E pm \in PaymentLookup(cpayment) : OrderSave(pm.order, "paid")
    /\ cpc' = "done"
    /\ cresult' = "ok"
    /\ UNCHANGED <<tickets, payments, nextOrderId, txOrders, txTickets,
                   refVars, reqVars, checkoutVars, csession, cpayment,
                   nconfirm>>

\* the response is sent
ConfirmRespond ==
    /\ cpc = "done"
    /\ cpc' = "idle"
    /\ csession' = 0
    /\ cpayment' = 0
    /\ cresult' = "none"
    /\ UNCHANGED <<orders, tickets, payments, nextOrderId, txOrders,
                   txTickets, refVars, reqVars, checkoutVars, nconfirm>>

Next ==
    \/ \E p \in Procs, body \in Requests : Submit(p, body, NoExtra)
    \/ \E p \in Procs : ValidateTicket(p)
    \/ \E p \in Procs : ValidateOrder(p)
    \/ \E p \in Procs : CreateOrderRow(p)
    \/ \E p \in Procs : CreateTicketRow(p)
    \/ \E p \in Procs : DeadlockAbort(p)
    \/ \E p \in Procs : CommitOrder(p)
    \/ \E p \in Procs : Respond(p)

Spec == Init /\ [][Next]_vars

\* order bodies of the payment scenarios: one and two seats of flight 1
PayRequests == { <<SeatA1>>, <<SeatA1, SeatB1>>, <<SeatB1>> }

\* one client books, checks out and confirms; the three handlers interleave
PayNext ==
    \/ \E body \in PayRequests : \E more \in BodyExtras :
          Submit("u1", body, more)
    \/ ValidateTicket("u1")
    \/ ValidateOrder("u1")
    \/ CreateOrderRow("u1")
    \/ CreateTicketRow("u1")
    \/ CommitOrder("u1")
    \/ Respond("u1")
    \/ \E o \in 1..MaxRequests : StripeSessionCreate(o)
    \/ create_payment
    \/ CheckoutReturn
    \/ \E session \in SessionInputs : ConfirmLookup(session)
    \/ ConfirmSavePayment
    \/ ConfirmSaveOrder
    \/ ConfirmRespond

PaySpec == Init /\ [][PayNext]_vars

\* Payment.Status.choices
PaymentStatusChoices == { "paid", "not paid" }

\* PATCH /payments/{id}/ by a user the permissions admit: PaymentViewSet is a
\* ModelViewSet, so the router gives it update and partial_update, which
\* save the validated status through the same serializer payment_success
\* uses; a request for a row that does not exist is a 404 and writes nothing
PaymentPartialUpdate(sid, status) ==
    /\ PaymentLookup(sid) # {}
    /\ PaymentSave(sid, status)
    /\ UNCHANGED <<orders, tickets, nextOrderId, txOrders, txTickets,
                   refVars, reqVars, checkoutVars, confirmVars>>

\* the payment scenarios with the viewset's update route
PayApiNext ==
    \/ PayNext
    \/ \E sid \in 1..MaxSessions : \E status \in PaymentStatusChoices :
          PaymentPartialUpdate(sid, status)

PayApiSpec == Init /\ [][PayApiNext]_vars

\* seat maps an aircraft update may set: those of the two aircraft of Init
SeatMaps == { [rows |-> 1, seats_in_row |-> 2], [rows |-> 1, seats_in_row |-> 1] }

\* PUT or PATCH /aircraft/{id}/ : UpdateModelMixin with AircraftSerializer,
\* whose fields rows and seats_in_row are plain integers; the row is saved
\* as validated
AircraftViewSet_update(a, m) ==
    /\ aircraft' = [aircraft EXCEPT ![a] = m]
    /\ UNCHANGED <<flights, orders, tickets, payments, nextOrderId,
                   txOrders, txTickets, reqVars, checkoutVars, confirmVars>>

\* PUT or PATCH /flights/{id}/ : UpdateModelMixin with FlightSerializer,
\* whose field aircraft is any existing aircraft
FlightViewSet_update(f, a) ==
    /\ flights' = [flights EXCEPT ![f].aircraft = a]
    /\ UNCHANGED <<aircraft, orders, tickets, payments, nextOrderId,
                   txOrders, txTickets, reqVars, checkoutVars, confirmVars>>

\* one client books seats of flight 1 while aircraft and flights are updated
FleetNext ==
    \/ \E body \in PayRequests : Submit("u1", body, NoExtra)
    \/ ValidateTicket("u1")
    \/ ValidateOrder("u1")
    \/ CreateOrderRow("u1")
    \/ CreateTicketRow("u1")
    \/ CommitOrder("u1")
    \/ Respond("u1")
    \/ \E a \in AircraftIds, m \in SeatMaps : AircraftViewSet_update(a, m)
    \/ \E f \in FlightIds, a \in AircraftIds : FlightViewSet_update(f, a)

FleetSpec == Init /\ [][FleetNext]_vars

----------------------------------------------------------------------------
(* Properties *)

OrderIds == { r.id : r \in orders }

\* the seat a ticket dict or a Ticket row names
Seat(t) == <<t.flight, t.row, t.seat>>

\* the committed rows of the order request p wrote, if it wrote one
CommittedRowsOf(p) ==
    { r \in orders : oid[p] # 0 /\ r.id = oid[p] }
    \cup { t \in tickets : oid[p] # 0 /\ t.order = oid[p] }

\* request p has no row left, committed or pending
NothingPersistedOf(p) ==
    /\ CommittedRowsOf(p) = {}
    /\ txOrders[p] = {}
    /\ txTickets[p] = {}

\* the bodies of p and q name a common (flight, row, seat)
SharesSeat(p, q) ==
    \E i \in 1..Len(req[p]), j \in 1..Len(req[q]) :
        Seat(req[p][i]) = Seat(req[q][j])

\* a ticket dict inside the seat map of its flight's aircraft
InSeatMap(t) ==
    /\ 1 <= t.row
    /\ t.row <= aircraft[flights[t.flight].aircraft].rows
    /\ ChrA <= t.seat
    /\ t.seat <= SeatBase + aircraft[flights[t.flight].aircraft].seats_in_row

\* a body naming two different flights
MixedFlights(ts) ==
    \E i, j \in 1..Len(ts) : ts[i].flight # ts[j].flight

\* a body that is rejected for no reason of its own
WellFormed(ts) ==
    /\ Len(ts) > 0
    /\ ~ MixedFlights(ts)
    /\ \A i \in 1..Len(ts) : InSeatMap(ts[i])

\* request p ended with the failure the store or the serializer raises for
\* a seat that is taken: the unique-set validation error, the integrity
\* error of the unique index, or the abort of a wait on the index
SeatConflictFailure(p) ==
    /\ pc[p] = "done"
    /\ \/ result[p] = "IntegrityError"
       \/ result[p] = "OperationalError"
       \/ result[p] = "ValidationError" /\ "unique" \in errs[p]

\* C1: no two committed tickets have the same (flight, row, seat)
C1_NoDoubleBooking ==
    \A t1, t2 \in tickets : Seat(t1) = Seat(t2) => t1 = t2

\* a request was refused a seat while two tickets are committed
C1_Witness ==
    /\ Cardinality(tickets) >= 2
    /\ \E p \in Procs : SeatConflictFailure(p)

NamesBookedSeat(p) ==
    \E i \in 1..Len(req[p]) : \E t \in tickets :
        unique_together(t)
            = <<get_prep_value(req[p][i].seat), req[p][i].row, req[p][i].flight>>

\* C3: the step that ends a request naming an already booked seat is a
\* failure, leaves the committed orders and tickets as they were, and leaves
\* no row of the request behind, the rows written before the conflicting
\* ticket included
C3_ConflictPersistsNothing ==
    [][ \A p \in Procs :
          (pc[p] # "done" /\ pc'[p] = "done" /\ NamesBookedSeat(p)) =>
              /\ result'[p] # "created"
              /\ orders' = orders
              /\ tickets' = tickets
              /\ NothingPersistedOf(p)' ]_vars

\* a two-ticket request whose first ticket was written and whose second hit
\* a seat committed by another order
C3_Witness ==
    \E p \in Procs :
        /\ pc[p] = "done"
        /\ result[p] = "IntegrityError"
        /\ Len(req[p]) = 2
        /\ idx[p] = 2
        /\ req[p][1] # req[p][2]
        /\ \E t \in tickets : /\ Seat(t) = Seat(req[p][2])
                              /\ t.order # oid[p]

\* C4: the committed store never holds a part of an order: while a request
\* is writing, none of its rows is committed; once it has succeeded, its
\* Order and all tickets of its body are; and every committed ticket has
\* its Order committed
C4_NoPartialOrder ==
    /\ \A p \in Procs :
         /\ pc[p] \in {"create", "insert"} => CommittedRowsOf(p) = {}
         /\ (pc[p] = "done" /\ result[p] = "created") =>
                /\ oid[p] \in OrderIds
                /\ Cardinality({ t \in tickets : t.order = oid[p] })
                       = Len(req[p])
    /\ \A t \in tickets : t.order \in OrderIds

\* a request has written its Order and the first of its two tickets
C4_Witness ==
    \E p \in Procs :
        /\ pc[p] = "insert"
        /\ Len(req[p]) = 2
        /\ idx[p] = 2
        /\ txOrders[p] # {}
        /\ txTickets[p] # {}

\* request p takes a step
StepOf(p) == pc'[p] # pc[p] \/ idx'[p] # idx[p]

\* C5: a request whose body names two or more flights never gets past
\* validation: it writes no row, none of its steps changes the committed
\* orders and tickets, and it ends with a ValidationError
C5_MixedFlightsRejected ==
    /\ [](\A p \in Procs :
            MixedFlights(req[p]) =>
                /\ pc[p] \in {"validate", "done"}
                /\ oid[p] = 0
                /\ NothingPersistedOf(p)
                /\ pc[p] = "done" => result[p] = "ValidationError")
    /\ [][ \A p \in Procs :
             (MixedFlights(req'[p]) /\ StepOf(p)) =>
                 (orders' = orders /\ tickets' = tickets) ]_vars

\* a body of two in-range tickets of two flights was refused by
\* OrderSerializer.validate while another order is committed
C5_Witness ==
    \E p \in Procs :
        /\ pc[p] = "done"
        /\ MixedFlights(req[p])
        /\ \A i \in 1..Len(req[p]) : InSeatMap(req[p][i])
        /\ errs[p] = {"mixed_flights"}
        /\ result[p] = "ValidationError"
        /\ tickets # {}

\* C6: a request with a ticket outside the seat map of its flight's aircraft
\* never gets past validation: it writes no row, none of its steps changes
\* the committed orders and tickets, and it ends with a ValidationError;
\* and the seat check raises for no request whose tickets are all inside
C6_SeatBoundsRejected ==
    /\ [](\A p \in Procs :
            /\ (\E i \in 1..Len(req[p]) : ~ InSeatMap(req[p][i])) =>
                  /\ pc[p] \in {"validate", "done"}
                  /\ oid[p] = 0
                  /\ NothingPersistedOf(p)
                  /\ pc[p] = "done" => result[p] = "ValidationError"
            /\ "seat_row" \in errs[p] =>
                  \E i \in 1..Len(req[p]) : ~ InSeatMap(req[p][i]))
    /\ [][ \A p \in Procs :
             ((\E i \in 1..Len(req'[p]) : ~ InSeatMap(req'[p][i])) /\ StepOf(p))
                 => (orders' = orders /\ tickets' = tickets) ]_vars

\* a body with an in-range ticket followed by a ticket of row 0 was refused
\* by the seat check, and an in-range body of the same seat was accepted
C6_Witness ==
    \E p, q \in Procs :
        /\ pc[p] = "done"
        /\ Len(req[p]) = 2
        /\ InSeatMap(req[p][1])
        /\ req[p][2].row < 1
        /\ errs[p] = {"seat_row"}
        /\ result[p] = "ValidationError"
        /\ result[q] = "created"

\* C7: every committed Order has at least one committed Ticket, and all
\* Tickets of one Order are of the same Flight
C7_OrderOwnsTicketsOfOneFlight ==
    \A r \in orders :
        /\ \E t \in tickets : t.order = r.id
        /\ \A t1, t2 \in tickets :
               (t1.order = r.id /\ t2.order = r.id) => t1.flight = t2.flight

\* an order of two tickets is committed and a request with an empty ticket
\* list was refused
C7_Witness ==
    /\ \E r \in orders : Cardinality({ t \in tickets : t.order = r.id }) = 2
    /\ \E p \in Procs : pc[p] = "done" /\ errs[p] = {"empty"}

\* C8: when no order request is writing, the seats_left reported for every
\* flight of a flight query is the capacity of its aircraft minus the number
\* of its committed tickets
C8_SeatsLeftIsCapacityMinusTickets ==
    (\A p \in Procs : pc[p] \notin {"create", "insert"}) =>
        \A f \in FlightIds, crew \in CrewParams :
            InQueryset(f, crew) =>
                seats_left(f, crew)
                    = capacity(aircraft[flights[f].aircraft])
                      - Cardinality({ t \in tickets : t.flight = f })

\* C9: no committed state has a Payment paid while its Order is not paid
C9_PaymentPaidImpliesOrderPaid ==
    \A pm \in payments :
        pm.status = "paid" =>
            \A r \in orders : r.id = pm.order => r.status = "paid"

Confirmed(sid) ==
    \E pm \in payments :
        /\ pm.session_id = sid
        /\ pm.status = "paid"
        /\ \E r \in orders : r.id = pm.order /\ r.status = "paid"

\* C11: a payment_success request for a session that is already confirmed
\* finds the Payment, runs to the end without error and at no step changes
\* an Order, a Ticket or a Payment
C11_ReconfirmationChangesNothing ==
    [][ /\ (cpc = "idle" /\ cpc' # "idle" /\ Confirmed(csession')) =>
               (cpc' = "loaded" /\ UNCHANGED <<orders, tickets, payments>>)
        /\ (cpc = "loaded" /\ cpc' # "loaded" /\ Confirmed(cpayment)) =>
               (cpc' = "saved" /\ UNCHANGED <<orders, tickets, payments>>)
        /\ (cpc = "saved" /\ cpc' # "saved" /\ Confirmed(cpayment)) =>
               (cpc' = "done" /\ cresult' = "ok"
                  /\ UNCHANGED <<orders, tickets, payments>>) ]_vars

\* a request has saved the Payment of the only session ever handed out
\* while its Order is already paid, so an earlier request for the same
\* session has completed; another Order is still not paid
C11_Witness ==
    /\ nconfirm = 2
    /\ cpc = "saved"
    /\ nextSession = 2
    /\ Confirmed(cpayment)
    /\ \E r \in orders : r.status = "not paid"

\* distance * ticket_count * unit_rate of Order o
Charge(o) ==
    LET first == CHOOSE t \in tickets : t.order = o
    IN  flights[first.flight].distance * TicketCount(o) * UnitRate

\* the rows a step adds to the Payment table
NewPayments == payments' \ payments

\* create_payment is the step that ends a successful checkout
CheckoutSucceeds == kpc = "session" /\ kpc' = "done"

\* the one row a successful checkout adds, but for its amount
PendingRowOfSession ==
    /\ Cardinality(NewPayments) = 1
    /\ payments \subseteq payments'
    /\ \A pm \in NewPayments :
         /\ pm.order = korder
         /\ pm.status = "PENDING"
         /\ pm.session_id = ksession.id
         /\ pm.session_url = ksession.url
    /\ ksession.amount_total = Charge(korder)

\* C12 as stated: a successful checkout adds exactly one Payment row for the
\* order, Pending, with the provider's session id and url, whose amount is
\* the number distance * ticket_count * unit_rate that was sent to the
\* provider.
C12_AmountIsRequestedNumber ==
    [][ CheckoutSucceeds =>
          /\ PendingRowOfSession
          /\ \A pm \in NewPayments :
               pm.amount = [units |-> Charge(korder), hundredths |-> 0] ]_vars

\* C12 amended: a successful checkout adds exactly one Payment row for the
\* order, Pending, with the provider's session id and url; the provider is
\* asked for distance * ticket_count * unit_rate and the row's amount is one
\* hundredth of that number, kept to two decimal places.
C12_AmountIsHundredthOfRequested ==
    [][ CheckoutSucceeds =>
          /\ PendingRowOfSession
          /\ \A pm \in NewPayments :
               /\ pm.amount.hundredths \in 0..(AmountDivisor - 1)
               /\ pm.amount.units * AmountDivisor + pm.amount.hundredths
                      = Charge(korder) ]_vars

\* a checkout of a two-ticket Order has stored its Payment
C12_Witness ==
    /\ kpc = "done"
    /\ kresult = "session"
    /\ TicketCount(korder) = 2
    /\ \E pm \in payments :
         /\ pm.session_id = ksession.id
         /\ pm.order = korder
         /\ pm.status = "PENDING"

\* a step of a checkout whose provider call fails: the failing call itself
\* and the return to the caller
FailedCheckoutStep ==
    /\ kpc' # kpc
    /\ kresult' = "StripeError" \/ kresult = "StripeError"

\* C13: when the checkout provider's call fails, the checkout ends with the
\* provider's error without reaching create_payment, and no step of it
\* changes the Payment rows, the Order rows or the tickets.
C13_ProviderFailurePersistsNothing ==
    /\ [](kresult = "StripeError" => (kpc = "done" /\ ksession = NoSession))
    /\ [][ FailedCheckoutStep =>
             UNCHANGED <<payments, orders, tickets>> ]_vars

\* the provider has failed the second checkout of an Order whose first
\* checkout stored a Payment
C13_Witness ==
    /\ kpc = "done"
    /\ kresult = "StripeError"
    /\ korder \in OrderIds
    /\ \E pm \in payments : pm.order = korder

\* the step of payment_success that saves the Payment of session sid
ConfirmSaves(sid) == cpc = "loaded" /\ cpc' = "saved" /\ cpayment = sid

\* C14: no Payment row disappears, and the status of an existing Payment
\* changes only from Pending to Paid and only in the step of the
\* confirmation request for that Payment's session id; a Paid Payment stays
\* Paid.
C14_StatusOnlyPendingToPaidByConfirm ==
    [][ \A pm \in payments :
          \E pn \in payments' :
             /\ pn.session_id = pm.session_id
             /\ pn.status # pm.status =>
                   /\ pm.status = "PENDING"
                   /\ pn.status = "paid"
                   /\ ConfirmSaves(pm.session_id) ]_vars

\* the step in which request p commits Order row r
CreatedBy(p, r) ==
    /\ pc[p] = "insert"
    /\ pc'[p] = "done"
    /\ result'[p] = "created"
    /\ oid[p] = r.id

\* the step of payment_success that saves the Order of the loaded Payment
ConfirmSavesOrder(o) ==
    /\ cpc = "saved"
    /\ cpc' = "done"
    /\ \E pm \in payments : pm.session_id = cpayment /\ pm.order = o

\* C15: an Order row appears with status not paid and the requesting user as
\* its owner, whatever else the request body says; afterwards the row stays,
\* keeps its owner, and its status changes only from not paid to paid, in
\* the step of a confirmation whose Payment references the Order; a paid
\* Order stays paid.
C15_OrderStatusLifecycle ==
    [][ /\ \A r \in orders' :
             (~ \E old \in orders : old.id = r.id) =>
                 /\ r.status = "not paid"
                 /\ \E p \in Procs : CreatedBy(p, r) /\ r.user = p
        /\ \A old \in orders :
             \E r \in orders' :
                /\ r.id = old.id
                /\ r.user = old.user
                /\ r.status # old.status =>
                      /\ old.status = "not paid"
                      /\ r.status = "paid"
                      /\ ConfirmSavesOrder(old.id) ]_vars

\* a request whose body asks for status paid and owner u2 has committed its
\* Order, not paid and owned by the requester, while an earlier Order has
\* been paid through a confirmation
C15_Witness ==
    \E p \in Procs :
        /\ pc[p] = "done"
        /\ result[p] = "created"
        /\ extra[p] = [status |-> "paid", user |-> "u2"]
        /\ \E r \in orders :
             r.id = oid[p] /\ r.status = "not paid" /\ r.user = p
        /\ \E r \in orders : r.id # oid[p] /\ r.status = "paid"
        /\ cresult = "ok"

\* the body of p lists a (flight, row, seat) twice
OwnDuplicate(p) ==
    \E i, j \in 1..Len(req[p]) : i < j /\ Seat(req[p][i]) = Seat(req[p][j])

\* p is about to insert a ticket whose key it has written itself, earlier in
\* the same transaction
HitsOwnDuplicate(p) ==
    /\ pc[p] = "insert"
    /\ idx[p] <= Len(req[p])
    /\ \E t \in txTickets[p] :
         unique_together(t) = unique_together(TicketRow(p))

\* C16: a request whose own ticket list names a seat twice never succeeds and
\* the step that ends it leaves the committed rows as they were and no row
\* of the request behind; when the repeated ticket is reached, the Order row
\* and the first ticket are pending, the insert fails with the integrity
\* error of the unique index, and both are rolled back.
C16_OwnDuplicatePersistsNothing ==
    [][ \A p \in Procs :
          /\ (pc[p] # "done" /\ pc'[p] = "done" /\ OwnDuplicate(p)) =>
                /\ result'[p] # "created"
                /\ orders' = orders
                /\ tickets' = tickets
                /\ NothingPersistedOf(p)'
          /\ (HitsOwnDuplicate(p) /\ <<pc[p], idx[p]>> # <<pc'[p], idx'[p]>>) =>
                /\ txOrders[p] # {}
                /\ pc'[p] = "done"
                /\ result'[p] = "IntegrityError"
                /\ NothingPersistedOf(p)' ]_vars

\* a request listing one seat twice has failed on its second ticket, after
\* writing its Order and its first ticket, and no committed ticket names
\* that seat
C16_Witness ==
    \E p \in Procs :
        /\ pc[p] = "done"
        /\ result[p] = "IntegrityError"
        /\ Len(req[p]) = 2
        /\ req[p][1] = req[p][2]
        /\ idx[p] = 2
        /\ oid[p] # 0
        /\ ~ \E t \in tickets : Seat(t) = Seat(req[p][1])
        /\ NothingPersistedOf(p)

\* C17: every committed ticket lies inside the current seat map of its
\* flight's aircraft, no flight has more committed tickets than its
\* aircraft's capacity, and seats_left is never negative.
C17_TicketsInsideSeatMap ==
    /\ \A t \in tickets : InSeatMap(t)
    /\ \A f \in FlightIds :
         /\ Cardinality({ t \in tickets : t.flight = f })
                <= capacity(aircraft[flights[f].aircraft])
         /\ seats_left(f, NoCrewParam) >= 0

====
